---------------------------- MODULE Spec2Model ----------------------------
(***************************************************************************)
(* Model of package nlib (src/nlib/nlog.go): the logger constructor NewLog *)
(* with its sinks and fan-out writer, and the console formatters           *)
(* defaultFormatLevel, defaultCaller, colorize and colorizeBoth.           *)
(*                                                                         *)
(* A Go string is modelled as a sequence of one-character strings, so that *)
(* slicing, upper-casing, padding and concatenation are computed on the    *)
(* characters.  The escape byte 0x1b is the one element written ESC.       *)
(***************************************************************************)
EXTENDS Integers, Sequences, FiniteSets, TLC

VARIABLES
    NO_COLOR,     \* value of the environment variable NO_COLOR (a string)
    levelFmt,     \* the closure defaultFormatLevel returned: its noColor flag
    levelCall,    \* the last call of that closure: input, environment, result
    cwd,          \* the process's working directory
    callerCall,   \* the last call of the closure defaultCaller returned
    pc,           \* where the caller of NewLog is: "init", "returned", "panicked"
    config,       \* the NLogConfig given to NewLog
    mkdirCalls,   \* the os.MkdirAll calls made, in order
    defaultLog,   \* the records written through zerolog's global logger
    writers,      \* the []io.Writer handed to io.MultiWriter
    calls         \* every record emitted through the logger, with its fate

vars == <<NO_COLOR, levelFmt, levelCall, cwd, callerCall,
          pc, config, mkdirCalls, defaultLog, writers, calls>>

fmtVars    == <<NO_COLOR, levelFmt, levelCall>>
callerVars == <<cwd, callerCall>>
logVars    == <<pc, config, mkdirCalls, defaultLog, writers, calls>>

---------------------------------------------------------------------------
(* Bounds of the checked instances.                                        *)

MaxLevelLen == 4   \* longest generated level token / text form
MaxCwdDepth == 2   \* deepest generated working directory
MaxCfgInt   == 1   \* largest MaxSize / MaxBackups / MaxAge
MaxCalls    == 2   \* log calls made through the returned handle

---------------------------------------------------------------------------
(* Strings.                                                                *)

ESC == "ESC"

Lower == <<"a","b","c","d","e","f","g","h","i","j","k","l","m",
           "n","o","p","q","r","s","t","u","v","w","x","y","z">>
Upper == <<"A","B","C","D","E","F","G","H","I","J","K","L","M",
           "N","O","P","Q","R","S","T","U","V","W","X","Y","Z">>

UpperChar(c) ==
    IF \E k \in 1..Len(Lower) : Lower[k] = c
    THEN Upper[CHOOSE k \in 1..Len(Lower) : Lower[k] = c]
    ELSE c

\* strings.ToUpper on ASCII text
ToUpper(s) == [k \in 1..Len(s) |-> UpperChar(s[k])]

Digits == <<"0","1","2","3","4","5","6","7","8","9">>

\* the %d verb of fmt.Sprintf for a non-negative int
RECURSIVE Itoa(_)
Itoa(n) == IF n < 10 THEN <<Digits[n + 1]>>
           ELSE Itoa(n \div 10) \o <<Digits[(n % 10) + 1]>>

RECURSIVE Spaces(_)
Spaces(n) == IF n <= 0 THEN <<>> ELSE <<" ">> \o Spaces(n - 1)

\* the %Ns verb of fmt.Sprintf: left-padded with spaces to width n, never cut
PadLeft(s, n) == Spaces(n - Len(s)) \o s

\* every string over alphabet A of length at most n
StringsUpTo(A, n) == UNION {[1..k -> A] : k \in 0..n}

---------------------------------------------------------------------------
(* Colour codes.                                                           *)

colorBlack    == 30
colorRed      == 31
colorGreen    == 32
colorYellow   == 33
colorBlue     == 34
colorMagenta  == 35
colorCyan     == 36
colorWhite    == 37
colorBold     == 1
colorDarkGray == 90

\* zerolog's level field values
LevelTraceValue == <<"t","r","a","c","e">>
LevelDebugValue == <<"d","e","b","u","g">>
LevelInfoValue  == <<"i","n","f","o">>
LevelWarnValue  == <<"w","a","r","n">>
LevelErrorValue == <<"e","r","r","o","r">>
LevelFatalValue == <<"f","a","t","a","l">>
LevelPanicValue == <<"p","a","n","i","c">>

Bar(s) == <<"|">> \o s \o <<"|">>

\* A mutant of colorize: NO_COLOR is read once, when the closure is made,
\* and not on the call.
colorize_envAtMake(s, c, disabled) ==
    IF levelFmt.env # <<>> \/ disabled
    THEN Bar(s)
    ELSE <<ESC, "[">> \o Itoa(c) \o <<"m">> \o Bar(s) \o <<ESC, "[", "0", "m">>

colorize(s, c, disabled) ==
    IF NO_COLOR # <<>> \/ disabled
    THEN Bar(s)
    ELSE <<ESC, "[">> \o Itoa(c) \o <<"m">> \o Bar(s) \o <<ESC, "[", "0", "m">>

colorizeBoth(s, c1, c2, disabled) ==
    IF NO_COLOR # <<>> \/ disabled
    THEN Bar(s)
    ELSE <<ESC, "[">> \o Itoa(c1) \o <<"m">> \o <<ESC, "[">> \o Itoa(c2) \o <<"m">>
         \o Bar(s) \o <<ESC, "[", "0", "m">>

---------------------------------------------------------------------------
(* Values of type interface{} handed to a formatter: nil, a string, or a   *)
(* value of another type, given by the text fmt.Sprintf("%s", i) prints.   *)

NilValue     == [kind |-> "nil",    v |-> <<>>]
StringOf(s)  == [kind |-> "string", v |-> s]
OtherOf(txt) == [kind |-> "other",  v |-> txt]

Returned(s) == [panic |-> FALSE, s |-> s]
Panicked    == [panic |-> TRUE,  s |-> <<>>]

\* Go's s[0:n] on a string: a run-time panic when n exceeds len(s)
Slice0(s, n) == IF n > Len(s) THEN Panicked ELSE Returned(SubSeq(s, 1, n))

\* A mutant of LevelDefault: the token is cut to three upper-case characters.
LevelDefault_cut(ll, noColor) ==
    colorize(ToUpper(SubSeq(ll, 1, IF Len(ll) < 3 THEN Len(ll) ELSE 3)),
             colorBold, noColor)

\* the default case of the switch: the token itself, in bold
LevelDefault(ll, noColor) == colorize(ll, colorBold, noColor)

\* A mutant of LevelSwitch: warn is coloured yellow like debug.
LevelSwitch_warnYellow(ll, noColor) ==
    CASE ll = LevelTraceValue -> colorize(<<"T","R","C">>, colorMagenta, noColor)
      [] ll = LevelDebugValue -> colorize(<<"D","B","G">>, colorYellow, noColor)
      [] ll = LevelInfoValue  -> colorize(<<"I","N","F">>, colorGreen, noColor)
      [] ll = LevelWarnValue  -> colorize(<<"W","R","N">>, colorYellow, noColor)
      [] ll = LevelErrorValue -> colorizeBoth(<<"E","R","R">>, colorRed, colorBold, noColor)
      [] ll = LevelFatalValue -> colorizeBoth(<<"F","T","L">>, colorRed, colorBold, noColor)
      [] ll = LevelPanicValue -> colorizeBoth(<<"P","N","C">>, colorRed, colorBold, noColor)
      [] OTHER                -> LevelDefault(ll, noColor)

\* the switch on a string level
LevelSwitch(ll, noColor) ==
    CASE ll = LevelTraceValue -> colorize(<<"T","R","C">>, colorMagenta, noColor)
      [] ll = LevelDebugValue -> colorize(<<"D","B","G">>, colorYellow, noColor)
      [] ll = LevelInfoValue  -> colorize(<<"I","N","F">>, colorGreen, noColor)
      [] ll = LevelWarnValue  -> colorize(<<"W","R","N">>, colorRed, noColor)
      [] ll = LevelErrorValue -> colorizeBoth(<<"E","R","R">>, colorRed, colorBold, noColor)
      [] ll = LevelFatalValue -> colorizeBoth(<<"F","T","L">>, colorRed, colorBold, noColor)
      [] ll = LevelPanicValue -> colorizeBoth(<<"P","N","C">>, colorRed, colorBold, noColor)
      [] OTHER                -> LevelDefault(ll, noColor)

\* A mutant of the non-string branch: nil is rendered without the bars.
LevelNonString_bare(i, noColor) ==
    IF i.kind = "nil" THEN Returned(<<"?","?","?">>)
    ELSE Slice0(ToUpper(i.v), 3)

LevelNonString(i, noColor) ==
    IF i.kind = "nil"
    THEN Returned(colorize(<<"?","?","?">>, colorBold, noColor))
    ELSE Slice0(ToUpper(i.v), 3)

\* the closure defaultFormatLevel(noColor) returns, applied to i
defaultFormatLevel(noColor, i) ==
    IF i.kind = "string"
    THEN Returned(LevelSwitch(i.v, noColor))
    ELSE LevelNonString(i, noColor)

---------------------------------------------------------------------------
(* Paths: path/filepath's Clean and Rel on "/"-separated paths.            *)

HasSlash(s) == \E k \in 1..Len(s) : s[k] = "/"
FirstSlash(s) == CHOOSE k \in 1..Len(s) : s[k] = "/" /\ \A j \in 1..(k - 1) : s[j] # "/"

\* the elements of s between separators (empty ones included)
RECURSIVE SplitPath(_)
SplitPath(s) ==
    IF ~HasSlash(s) THEN <<s>>
    ELSE <<SubSeq(s, 1, FirstSlash(s) - 1)>>
         \o SplitPath(SubSeq(s, FirstSlash(s) + 1, Len(s)))

RECURSIVE JoinPath(_)
JoinPath(comps) ==
    IF comps = <<>> THEN <<>>
    ELSE IF Len(comps) = 1 THEN comps[1]
    ELSE comps[1] \o <<"/">> \o JoinPath(Tail(comps))

DotDot == <<".", ".">>

\* Clean's pass over the elements: "" and "." are dropped, ".." removes the
\* element before it, is dropped at the root, and is kept in front of a
\* relative path.
RECURSIVE CleanComps(_, _, _)
CleanComps(comps, acc, rooted) ==
    IF comps = <<>> THEN acc
    ELSE LET h == Head(comps)
             t == Tail(comps)
         IN  IF h = <<>> \/ h = <<".">> THEN CleanComps(t, acc, rooted)
             ELSE IF h = DotDot
                  THEN IF acc # <<>> /\ acc[Len(acc)] # DotDot
                       THEN CleanComps(t, SubSeq(acc, 1, Len(acc) - 1), rooted)
                       ELSE IF rooted THEN CleanComps(t, acc, rooted)
                       ELSE CleanComps(t, Append(acc, h), rooted)
                  ELSE CleanComps(t, Append(acc, h), rooted)

IsRooted(s) == Len(s) > 0 /\ s[1] = "/"

\* filepath.Clean, as the rooted flag and the cleaned elements
Clean(s) == [rooted |-> IsRooted(s),
             comps  |-> CleanComps(SplitPath(s), <<>>, IsRooted(s))]

\* the string of a cleaned path
PathString(p) ==
    IF p.rooted THEN <<"/">> \o JoinPath(p.comps)
    ELSE IF p.comps = <<>> THEN <<".">>
    ELSE JoinPath(p.comps)

\* number of leading elements two element lists share
RECURSIVE CommonPrefix(_, _)
CommonPrefix(a, b) ==
    IF a = <<>> \/ b = <<>> \/ Head(a) # Head(b) THEN 0
    ELSE 1 + CommonPrefix(Tail(a), Tail(b))

RECURSIVE Ups(_)
Ups(n) == IF n <= 0 THEN <<>> ELSE <<DotDot>> \o Ups(n - 1)

\* filepath.Rel(basepath, targpath): [err, s]
Rel(basepath, targpath) ==
    LET base == Clean(basepath)
        targ == Clean(targpath)
        k    == CommonPrefix(base.comps, targ.comps)
        bl   == Len(base.comps)
        tl   == Len(targ.comps)
    IN  IF base = targ THEN [err |-> FALSE, s |-> <<".">>]
        ELSE IF base.rooted # targ.rooted THEN [err |-> TRUE, s |-> <<>>]
        ELSE IF k < bl /\ base.comps[k + 1] = DotDot THEN [err |-> TRUE, s |-> <<>>]
        ELSE [err |-> FALSE,
              s   |-> JoinPath(Ups(bl - k) \o SubSeq(targ.comps, k + 1, tl))]

\* os.Getwd(): the working directory, or an error when it cannot be determined
Getwd == cwd

callerWidth == 26

\* lines 98-104 of defaultCaller: the caller relative to the working
\* directory when both Getwd and Rel succeed, the caller unchanged otherwise
CallerRel(caller) ==
    IF Len(caller) > 0 /\ ~Getwd.err /\ ~Rel(Getwd.dir, caller).err
    THEN Rel(Getwd.dir, caller).s
    ELSE caller

\* A mutant of defaultCaller: the field is left-aligned.
defaultCaller_leftAligned(noColor, i) ==
    LET caller == IF i.kind = "string" THEN i.v ELSE <<>>
    IN  CallerRel(caller) \o Spaces(callerWidth - Len(CallerRel(caller))) \o <<" ", ">">>

\* the closure defaultCaller(noColor) returns, applied to i
defaultCaller(noColor, i) ==
    LET caller == IF i.kind = "string" THEN i.v ELSE <<>>
    IN  PadLeft(CallerRel(caller), callerWidth) \o <<" ", ">">>

---------------------------------------------------------------------------
(* NewLog: the sinks, the fan-out writer and the records written to it.    *)

\* the zero value of NLogConfig
ZeroConfig == [OutputConsole |-> FALSE, OutputFile |-> FALSE,
               LogPath |-> "", LogFile |-> "",
               MaxSize |-> 0, MaxBackups |-> 0, MaxAge |-> 0]

\* the permission bits 0744 given to os.MkdirAll
dirPerm == 484

\* the io.Writer values a ConsoleWriter's Out can hold
NilWriter == [type |-> "nil", args |-> <<>>]
Stderr    == [type |-> "stderr", args |-> <<>>]

\* newRollingFile's result: nil when MkdirAll failed, else the lumberjack
\* logger for path.Join(LogPath, LogFile) (kept as the pair it joins)
newRollingFile(cfg, mkdirOk) ==
    IF ~mkdirOk THEN NilWriter
    ELSE [type |-> "lumberjack",
          args |-> <<<<cfg.LogPath, cfg.LogFile>>, cfg.MaxBackups, cfg.MaxSize, cfg.MaxAge>>]

\* the zerolog.ConsoleWriter NewLog builds around an output
ConsoleWriter(out) ==
    [Out |-> out, FormatTimestamp |-> "defaultTimestamp",
     FormatCaller |-> FALSE, FormatLevel |-> FALSE]

\* A mutant of Writers: the console sink is put in front of the file sink.
Writers_consoleFirst(cfg, mkdirOk) ==
    (IF cfg.OutputConsole THEN <<ConsoleWriter(Stderr)>> ELSE <<>>)
    \o (IF cfg.OutputFile THEN <<ConsoleWriter(newRollingFile(cfg, mkdirOk))>> ELSE <<>>)

\* A mutant of Writers: the file sink is built whatever OutputFile says.
Writers_alwaysFile(cfg, mkdirOk) ==
    <<ConsoleWriter(newRollingFile(cfg, mkdirOk))>>
    \o (IF cfg.OutputConsole THEN <<ConsoleWriter(Stderr)>> ELSE <<>>)

\* the slice `writers` at line 50: the file adapter, then the console adapter
Writers(cfg, mkdirOk) ==
    (IF cfg.OutputFile THEN <<ConsoleWriter(newRollingFile(cfg, mkdirOk))>> ELSE <<>>)
    \o (IF cfg.OutputConsole THEN <<ConsoleWriter(Stderr)>> ELSE <<>>)

\* the os.MkdirAll calls of a NewLog call
MkdirAll(cfg, mkdirOk) ==
    IF cfg.OutputFile
    THEN <<[path |-> cfg.LogPath, perm |-> dirPerm, ok |-> mkdirOk]>>
    ELSE <<>>

\* what newRollingFile writes through the global logger
FallbackRecords(cfg, mkdirOk) ==
    IF cfg.OutputFile /\ ~mkdirOk
    THEN <<[level |-> "error", message |-> "can't create log directory",
            path |-> cfg.LogPath]>>
    ELSE <<>>

\* ConsoleWriter.Write: the formatted line goes to Out.  A nil Out is a nil
\* interface, whose Write call is a run-time panic; an Out that returns an
\* error makes the adapter return it.
ConsoleWriterWrite(w, fails) ==
    IF w.Out.type = "nil" THEN "panic"
    ELSE IF fails[w.Out.type] THEN "err"
    ELSE "ok"

\* io.MultiWriter's Write: the writers in order, stopping at the first one
\* that does not take the record; the result of each writer
RECURSIVE MultiWrite(_, _)
MultiWrite(ws, fails) ==
    IF ws = <<>> THEN <<>>
    ELSE IF ConsoleWriterWrite(Head(ws), fails) = "ok"
         THEN <<"ok">> \o MultiWrite(Tail(ws), fails)
         ELSE <<ConsoleWriterWrite(Head(ws), fails)>>
              \o [k \in 1..Len(Tail(ws)) |-> "skipped"]

InSeq(x, sq) == \E k \in 1..Len(sq) : sq[k] = x

\* Event.Msg on the logger built at line 51: the record goes to the
\* fan-out writer once; a write error is printed by zerolog and not
\* returned (Msg returns nothing); a panic unwinds into the caller.
Emit(rec, ws, fails) ==
    LET res == MultiWrite(ws, fails)
    IN  [rec     |-> rec,
         tag     |-> defaultFormatLevel(FALSE, StringOf(rec.level)).s,
         results |-> res,
         err     |-> InSeq("err", res),
         outcome |-> IF InSeq("panic", res) THEN "panic" ELSE "return"]

\* A mutant of StartupRecord: the two output flags are swapped.
StartupRecord_swapped(cfg) ==
    [level   |-> LevelInfoValue,
     message |-> "logging configured",
     context |-> {"time", "caller"},
     fields  |-> [fileLogging    |-> cfg.OutputConsole,
                  consoleLogging |-> cfg.OutputFile,
                  logPath        |-> cfg.LogPath,
                  logFile        |-> cfg.LogFile,
                  maxSizeMB      |-> cfg.MaxSize,
                  maxBackup      |-> cfg.MaxBackups,
                  maxAgeInDays   |-> cfg.MaxAge]]

\* the record of lines 52-59
StartupRecord(cfg) ==
    [level   |-> LevelInfoValue,
     message |-> "logging configured",
     context |-> {"time", "caller"},
     fields  |-> [fileLogging    |-> cfg.OutputFile,
                  consoleLogging |-> cfg.OutputConsole,
                  logPath        |-> cfg.LogPath,
                  logFile        |-> cfg.LogFile,
                  maxSizeMB      |-> cfg.MaxSize,
                  maxBackup      |-> cfg.MaxBackups,
                  maxAgeInDays   |-> cfg.MaxAge]]

\* a record the application logs through the handle
UserRecord(level, n) ==
    [level |-> level, message |-> "user", context |-> {"time", "caller"},
     fields |-> [n |-> n]]

---------------------------------------------------------------------------
(* Inputs.                                                                 *)

Configs ==
    [OutputConsole : BOOLEAN, OutputFile : BOOLEAN,
     LogPath : {"logs", "/ro/logs"}, LogFile : {"app.log"},
     MaxSize : 0..MaxCfgInt, MaxBackups : 0..MaxCfgInt, MaxAge : 0..MaxCfgInt]

\* which outputs return an error on a write
Failures == [{"lumberjack", "stderr"} -> BOOLEAN]

UserLevels == {LevelDebugValue, LevelErrorValue}

EnvValues == {<<>>, <<"1">>}

LevelTokens == {LevelTraceValue, LevelDebugValue, LevelInfoValue, LevelWarnValue,
                LevelErrorValue, LevelFatalValue, LevelPanicValue}

LevelTexts ==
    StringsUpTo({"a", "Z"}, MaxLevelLen)
    \cup {<<"w","a","r","n","i","n","g">>, <<"I","N","F","O">>, <<"1">>,
          <<"%","!","s","(","i","n","t","=","7",")">>}

LevelInputs ==
    {NilValue} \cup {StringOf(s) : s \in LevelTokens \cup LevelTexts}
               \cup {OtherOf(s) : s \in LevelTexts}

SubFile == <<"/","s","u","b","/","f","i","l","e",".","g","o",":","1","0">>

\* working directories: "/" followed by up to MaxCwdDepth names
RECURSIVE DirsOfDepth(_)
DirsOfDepth(n) ==
    IF n = 0 THEN {<<>>}
    ELSE {d \o <<"/">> \o nm : d \in DirsOfDepth(n - 1), nm \in {<<"w">>, <<"p","q">>}}

CwdDirs == {<<"/">>} \cup UNION {DirsOfDepth(n) : n \in 1..MaxCwdDepth}

CallerStrings ==
    {d \o sfx : d \in CwdDirs, sfx \in {SubFile, <<"/","m",".","g","o",":","5">>}}
    \cup {<<>>,
          <<"r",".","g","o",":","1">>,
          <<"/","w","/",".",".","/","w","/","a",".","g","o",":","3">>,
          <<"/","o","/","a","b","c","d","e","f","g","h","i","j","k","l","m","n",
            "o","p","q","r","s","t","u","v","w","x","y","z",".","g","o",":","9">>}

CallerInputs ==
    {NilValue, OtherOf(<<"7">>)} \cup {StringOf(s) : s \in CallerStrings}

---------------------------------------------------------------------------
(* The state machine.                                                      *)

NoLevelFmt    == [made |-> FALSE, noColor |-> FALSE, env |-> <<>>]
NoLevelCall   == [called |-> FALSE, noColor |-> FALSE, i |-> NilValue,
                  env |-> <<>>, envAtMake |-> <<>>, out |-> Returned(<<>>)]
NoCallerCall  == [called |-> FALSE, i |-> NilValue,
                  wd |-> [err |-> FALSE, dir |-> <<"/">>], out |-> <<>>]

Init ==
    /\ NO_COLOR = <<>>
    /\ levelFmt = NoLevelFmt
    /\ levelCall = NoLevelCall
    /\ cwd = [err |-> FALSE, dir |-> <<"/">>]
    /\ callerCall = NoCallerCall
    /\ pc = "init"
    /\ config = ZeroConfig
    /\ mkdirCalls = <<>>
    /\ defaultLog = <<>>
    /\ writers = <<>>
    /\ calls = <<>>

\* os.Setenv("NO_COLOR", v)
Setenv(v) ==
    /\ NO_COLOR' = v
    /\ UNCHANGED <<levelFmt, levelCall, callerVars, logVars>>

\* defaultFormatLevel(noColor): the closure is created
MakeLevelFormatter(noColor) ==
    /\ levelFmt' = [made |-> TRUE, noColor |-> noColor, env |-> NO_COLOR]
    /\ UNCHANGED <<NO_COLOR, levelCall, callerVars, logVars>>

\* the closure is applied to a level value
CallLevelFormatter(i) ==
    /\ levelFmt.made
    /\ levelCall' = [called |-> TRUE, noColor |-> levelFmt.noColor, i |-> i,
                     env |-> NO_COLOR, envAtMake |-> levelFmt.env,
                     out |-> defaultFormatLevel(levelFmt.noColor, i)]
    /\ UNCHANGED <<NO_COLOR, levelFmt, callerVars, logVars>>

\* os.Chdir(d)
Chdir(d) ==
    /\ cwd' = [err |-> FALSE, dir |-> d]
    /\ UNCHANGED <<fmtVars, callerCall, logVars>>

\* the working directory is removed: os.Getwd fails from now on
LoseCwd ==
    /\ cwd' = [err |-> TRUE, dir |-> <<>>]
    /\ UNCHANGED <<fmtVars, callerCall, logVars>>

\* the closure defaultCaller(noColor) returned is applied to a caller value
CallCallerFormatter(noColor, i) ==
    /\ callerCall' = [called |-> TRUE, i |-> i, wd |-> cwd,
                      out |-> defaultCaller(noColor, i)]
    /\ UNCHANGED <<fmtVars, cwd, logVars>>

\* NewLog(cfg), with the outcome of os.MkdirAll and of the outputs' writes
NewLog(cfg, mkdirOk, fails) ==
    /\ pc = "init"
    /\ config' = cfg
    /\ mkdirCalls' = mkdirCalls \o MkdirAll(cfg, mkdirOk)
    /\ defaultLog' = defaultLog \o FallbackRecords(cfg, mkdirOk)
    /\ writers' = Writers(cfg, mkdirOk)
    /\ calls' = <<Emit(StartupRecord(cfg), Writers(cfg, mkdirOk), fails)>>
    /\ pc' = IF Emit(StartupRecord(cfg), Writers(cfg, mkdirOk), fails).outcome = "panic"
             THEN "panicked" ELSE "returned"
    /\ UNCHANGED <<fmtVars, callerVars>>

\* a log call through the handle NewLog returned
LogCall(level, fails) ==
    /\ pc = "returned"
    /\ Len(calls) < 1 + MaxCalls
    /\ calls' = Append(calls, Emit(UserRecord(level, Len(calls)), writers, fails))
    /\ pc' = IF Emit(UserRecord(level, Len(calls)), writers, fails).outcome = "panic"
             THEN "panicked" ELSE "returned"
    /\ UNCHANGED <<config, mkdirCalls, defaultLog, writers, fmtVars, callerVars>>

NextLog ==
    \/ \E cfg \in Configs, mkdirOk \in BOOLEAN, fails \in Failures :
           NewLog(cfg, mkdirOk, fails)
    \/ \E level \in UserLevels, fails \in Failures : LogCall(level, fails)

NextLevel ==
    \/ \E v \in EnvValues : Setenv(v)
    \/ \E noColor \in BOOLEAN : MakeLevelFormatter(noColor)
    \/ \E i \in LevelInputs : CallLevelFormatter(i)

NextCaller ==
    \/ \E d \in CwdDirs : Chdir(d)
    \/ LoseCwd
    \/ \E noColor \in BOOLEAN, i \in CallerInputs : CallCallerFormatter(noColor, i)

Spec       == Init /\ [][NextLog]_vars
SpecLevel  == Init /\ [][NextLevel]_vars
SpecCaller == Init /\ [][NextCaller]_vars

---------------------------------------------------------------------------
(* Properties of the level formatter (checked under SpecLevel).            *)

HasEsc(s) == \E k \in 1..Len(s) : s[k] = ESC

\* s is |TEXT| with nothing around the bars
PlainForm(s) == Len(s) >= 2 /\ s[1] = "|" /\ s[Len(s)] = "|" /\ ~HasEsc(s)

BoldOnly(text) ==
    <<ESC, "[", "1", "m", "|">> \o text \o <<"|", ESC, "[", "0", "m">>

\* the table of section 4.1: the bytes expected for each canonical token
TableOutput(tok) ==
    CASE tok = LevelTraceValue ->
           <<ESC,"[","3","5","m","|","T","R","C","|",ESC,"[","0","m">>
      [] tok = LevelDebugValue ->
           <<ESC,"[","3","3","m","|","D","B","G","|",ESC,"[","0","m">>
      [] tok = LevelInfoValue ->
           <<ESC,"[","3","2","m","|","I","N","F","|",ESC,"[","0","m">>
      [] tok = LevelWarnValue ->
           <<ESC,"[","3","1","m","|","W","R","N","|",ESC,"[","0","m">>
      [] tok = LevelErrorValue ->
           <<ESC,"[","3","1","m",ESC,"[","1","m","|","E","R","R","|",ESC,"[","0","m">>
      [] tok = LevelFatalValue ->
           <<ESC,"[","3","1","m",ESC,"[","1","m","|","F","T","L","|",ESC,"[","0","m">>
      [] tok = LevelPanicValue ->
           <<ESC,"[","3","1","m",ESC,"[","1","m","|","P","N","C","|",ESC,"[","0","m">>

TablePlain(tok) ==
    CASE tok = LevelTraceValue -> <<"|","T","R","C","|">>
      [] tok = LevelDebugValue -> <<"|","D","B","G","|">>
      [] tok = LevelInfoValue  -> <<"|","I","N","F","|">>
      [] tok = LevelWarnValue  -> <<"|","W","R","N","|">>
      [] tok = LevelErrorValue -> <<"|","E","R","R","|">>
      [] tok = LevelFatalValue -> <<"|","F","T","L","|">>
      [] tok = LevelPanicValue -> <<"|","P","N","C","|">>

ColourOn(call) == ~call.noColor /\ call.env = <<>>

\* the first three characters of s (all of s when it is shorter), upper-cased
FirstThreeUpper(s) ==
    [k \in 1..(IF Len(s) < 3 THEN Len(s) ELSE 3) |-> UpperChar(s[k])]

\* C2: for each of the seven canonical level tokens, with colouring not
\* disabled and NO_COLOR unset, the level formatter returns exactly the
\* table's abbreviation in |...| wrapped in the table's colour codes and
\* followed by the reset sequence.
C2_CanonicalTokensColoured ==
    (/\ levelCall.called
     /\ ColourOn(levelCall)
     /\ levelCall.i.kind = "string"
     /\ levelCall.i.v \in LevelTokens)
    => levelCall.out = Returned(TableOutput(levelCall.i.v))

C2_Witness ==
    /\ levelCall.called
    /\ ColourOn(levelCall)
    /\ levelCall.i = StringOf(LevelErrorValue)
    /\ levelCall.out.s =
         <<ESC,"[","3","1","m",ESC,"[","1","m","|","E","R","R","|",ESC,"[","0","m">>

\* C3 as stated: whenever NO_COLOR is non-empty, the output of the level
\* formatter for every input is the plain |TEXT| form without any escape
\* sequence, whatever the disabled flag (only calls that return are taken).
C3_Original ==
    (levelCall.called /\ levelCall.env # <<>> /\ ~levelCall.out.panic)
    => PlainForm(levelCall.out.s)

\* C3 as amended: whenever NO_COLOR is non-empty at the time of the call,
\* whatever the disabled flag and whatever NO_COLOR was when the closure was
\* made, a string or nil input gives the plain |TEXT| form (the table's
\* abbreviation, the unrecognized token itself, or ???) and a non-string
\* value gives the bare upper-cased first three bytes of its text, without
\* bars, or a panic when the text is shorter than three bytes; no output
\* holds an escape sequence.
C3_NoColorEnvPlain ==
    (levelCall.called /\ levelCall.env # <<>>)
    => /\ levelCall.i.kind = "string" /\ levelCall.i.v \in LevelTokens
            => levelCall.out = Returned(TablePlain(levelCall.i.v))
       /\ levelCall.i.kind = "string" /\ levelCall.i.v \notin LevelTokens
            => levelCall.out = Returned(<<"|">> \o levelCall.i.v \o <<"|">>)
       /\ levelCall.i.kind = "nil"
            => levelCall.out = Returned(<<"|","?","?","?","|">>)
       /\ levelCall.i.kind = "other" /\ Len(levelCall.i.v) >= 3
            => /\ levelCall.out = Returned(FirstThreeUpper(levelCall.i.v))
               /\ ~PlainForm(levelCall.out.s)
       /\ levelCall.i.kind = "other" /\ Len(levelCall.i.v) < 3
            => levelCall.out.panic
       /\ ~HasEsc(levelCall.out.s)

C3_Witness ==
    /\ levelCall.called
    /\ levelCall.envAtMake = <<>>
    /\ levelCall.env = <<"1">>
    /\ ~levelCall.noColor
    /\ levelCall.i = StringOf(LevelFatalValue)
    /\ levelCall.out.s = <<"|","F","T","L","|">>

\* C7 as stated: for every string that is not a canonical token, with
\* colouring on, the formatter returns the first three characters of the
\* input, upper-cased, in |...| and bold only.
C7_Original ==
    (/\ levelCall.called
     /\ ColourOn(levelCall)
     /\ levelCall.i.kind = "string"
     /\ levelCall.i.v \notin LevelTokens)
    => levelCall.out = Returned(BoldOnly(FirstThreeUpper(levelCall.i.v)))

\* C7 as amended: for every string that is not a canonical token, the
\* formatter returns the whole input, neither cut nor upper-cased, in |...|,
\* wrapped in bold only when colouring is on and bare when it is off.
C7_UnrecognizedWhole ==
    (/\ levelCall.called
     /\ levelCall.i.kind = "string"
     /\ levelCall.i.v \notin LevelTokens)
    => IF ColourOn(levelCall)
       THEN levelCall.out = Returned(BoldOnly(levelCall.i.v))
       ELSE levelCall.out = Returned(<<"|">> \o levelCall.i.v \o <<"|">>)

C7_Witness ==
    /\ levelCall.called
    /\ ColourOn(levelCall)
    /\ levelCall.i = StringOf(<<"w","a","r","n","i","n","g">>)
    /\ levelCall.out.s =
         <<ESC,"[","1","m","|","w","a","r","n","i","n","g","|",ESC,"[","0","m">>

\* C8 as stated: for every input that is nil or of a non-string type, with
\* colouring on, the formatter returns ??? in |...| and bold only (only
\* calls that return are taken).
C8_Original ==
    (/\ levelCall.called
     /\ ColourOn(levelCall)
     /\ levelCall.i.kind # "string"
     /\ ~levelCall.out.panic)
    => levelCall.out.s = BoldOnly(<<"?","?","?">>)

\* C8 as amended: a nil input gives ??? in |...|, bold only when colouring
\* is on; a non-string value gives the first three bytes of its upper-cased
\* text, with no bars and no colour whatever the colouring, when the text
\* has three bytes or more, and a panic when it has fewer.
C8_NilAndNonString ==
    (levelCall.called /\ levelCall.i.kind # "string")
    => /\ levelCall.i.kind = "nil" /\ ColourOn(levelCall)
            => levelCall.out = Returned(BoldOnly(<<"?","?","?">>))
       /\ levelCall.i.kind = "nil" /\ ~ColourOn(levelCall)
            => levelCall.out = Returned(<<"|","?","?","?","|">>)
       /\ levelCall.i.kind = "other" /\ Len(levelCall.i.v) >= 3
            => /\ levelCall.out = Returned(FirstThreeUpper(levelCall.i.v))
               /\ Len(levelCall.out.s) = 3
       /\ levelCall.i.kind = "other" /\ Len(levelCall.i.v) < 3
            => levelCall.out.panic

C8_Witness ==
    /\ levelCall.called
    /\ ColourOn(levelCall)
    /\ levelCall.i = OtherOf(<<"%","!","s","(","i","n","t","=","7",")">>)
    /\ levelCall.out = Returned(<<"%","!","S">>)

\* C10: the level formatter is total: every call returns a string and none
\* panics, whatever the input.
C10_Total == levelCall.called => ~levelCall.out.panic

---------------------------------------------------------------------------
(* Properties of the caller formatter (checked under SpecCaller).          *)

Blanks(n) == [k \in 1..n |-> " "]

\* s without the spaces in front of it
RECURSIVE StripLeft(_)
StripLeft(s) == IF s # <<>> /\ s[1] = " " THEN StripLeft(Tail(s)) ELSE s

EndsInArrow(s) ==
    Len(s) >= 2 /\ s[Len(s) - 1] = " " /\ s[Len(s)] = ">"

\* the field in front of the closing " >"
CallerField(s) == SubSeq(s, 1, Len(s) - 2)

\* r is a relative path that leads from directory d to path p
LeadsTo(d, r, p) ==
    /\ ~IsRooted(r)
    /\ Clean(d \o <<"/">> \o r) = Clean(p)

\* C9: a caller equal to the working directory followed by /sub/file.go:10
\* is rendered as sub/file.go:10 right-aligned in 26 columns followed by
\* " >"; in general the field holds the caller relative to the working
\* directory when Getwd and Rel succeed and the caller itself otherwise,
\* left-padded with spaces to 26 columns and followed by " >"; a non-string
\* or empty caller gives 26 spaces.
C9_CallerFormat ==
    callerCall.called =>
      LET i     == callerCall.i
          out   == callerCall.out
          field == CallerField(out)
          shown == StripLeft(field)
      IN  /\ EndsInArrow(out)
          /\ Len(field) >= 26
          /\ field = Blanks(Len(field) - Len(shown)) \o shown
          /\ Len(field) > 26 => shown = field
          /\ (i.kind # "string" \/ i.v = <<>>) => field = Blanks(26)
          /\ (i.kind = "string" /\ ~callerCall.wd.err
                /\ i.v = callerCall.wd.dir \o SubFile)
               => out = Blanks(12)
                        \o <<"s","u","b","/","f","i","l","e",".","g","o",":","1","0">>
                        \o <<" ", ">">>
          /\ (i.kind = "string" /\ i.v # <<>>
                /\ (callerCall.wd.err \/ ~IsRooted(i.v)))
               => shown = i.v
          /\ (i.kind = "string" /\ i.v # <<>>
                /\ ~callerCall.wd.err /\ IsRooted(i.v))
               => LeadsTo(callerCall.wd.dir, shown, i.v)

C9_Witness ==
    /\ callerCall.called
    /\ callerCall.wd = [err |-> FALSE, dir |-> <<"/","w","/","p","q">>]
    /\ callerCall.i = StringOf(<<"/","w","/","p","q">> \o SubFile)
    /\ callerCall.out =
         <<" "," "," "," "," "," "," "," "," "," "," "," ",
           "s","u","b","/","f","i","l","e",".","g","o",":","1","0"," ",">">>

---------------------------------------------------------------------------
(* Properties of NewLog and of the handle it returns (checked under Spec). *)

IsFileAdapter(w)    == w.Out.type # "stderr"
IsConsoleAdapter(w) == w.Out.type = "stderr"

MkdirFailed == \E k \in 1..Len(mkdirCalls) : ~mkdirCalls[k].ok

\* the adapter at position k of the fan-out writer had its Write called
Reached(call, k) == call.results[k] # "skipped"

\* C1: when file output is enabled and the directory cannot be created,
\* NewLog still returns a handle: the error went through the fallback
\* logger, the file sink is not in the fan-out writer, and the startup
\* record and every later record go to the console sink alone or to no
\* sink, without a panic.
C1_DegradesWithoutFileSink ==
    (pc # "init" /\ config.OutputFile /\ MkdirFailed)
    => /\ pc = "returned"
       /\ Len(defaultLog) = 1
       /\ \A k \in 1..Len(writers) : IsConsoleAdapter(writers[k])
       /\ \A c \in 1..Len(calls) : calls[c].outcome = "return"

\* C4 as stated: every record reaches the file adapter when file output is
\* enabled and the stderr adapter when console output is enabled, also when
\* another sink's write returns an error, and the caller sees no error
\* (taken where the directory was created).
C4_Original ==
    (pc # "init" /\ ~MkdirFailed)
    => \A c \in 1..Len(calls) :
          /\ Len(calls[c].results) = Len(writers)
          /\ \A k \in 1..Len(writers) : Reached(calls[c], k)
          /\ config.OutputFile => \E k \in 1..Len(writers) : IsFileAdapter(writers[k])
          /\ config.OutputConsole => \E k \in 1..Len(writers) : IsConsoleAdapter(writers[k])
          /\ calls[c].outcome = "return"

\* C4 as amended: on every log call the record is offered to the active
\* adapters in the order file, stderr, stopping at the first adapter whose
\* write does not succeed: the file adapter, when file output is enabled,
\* is first and gets every record, and the stderr adapter, when console
\* output is enabled, gets a record exactly when there is no file adapter
\* or the file adapter wrote it; an error a sink returns is not reported to
\* the caller, whose call returns unless an adapter panicked.
C4_FanOutStopsAtFirstFailure ==
    pc # "init"
    => /\ Len(writers) = (IF config.OutputFile THEN 1 ELSE 0)
                         + (IF config.OutputConsole THEN 1 ELSE 0)
       /\ config.OutputFile => IsFileAdapter(writers[1])
       /\ config.OutputConsole => IsConsoleAdapter(writers[Len(writers)])
       /\ \A c \in 1..Len(calls) :
             /\ Len(calls[c].results) = Len(writers)
             /\ Len(writers) >= 1 => Reached(calls[c], 1)
             /\ Len(writers) = 2 =>
                   (Reached(calls[c], 2) <=> calls[c].results[1] = "ok")
             /\ calls[c].outcome = "return"
                   <=> \A k \in 1..Len(writers) : calls[c].results[k] # "panic"
             /\ calls[c].err <=> \E k \in 1..Len(writers) : calls[c].results[k] = "err"

C4_Witness ==
    /\ pc = "returned"
    /\ config.OutputFile /\ config.OutputConsole
    /\ Len(calls) = 3
    /\ calls[2].results = <<"ok", "ok">>
    /\ calls[3].results = <<"err", "skipped">>
    /\ calls[3].err
    /\ calls[3].outcome = "return"

\* C5: with console and file output both disabled NewLog returns, makes no
\* directory and logs no error, and the fan-out writer has no sink: the
\* startup record and every later record are written to nothing, without
\* an error and without a panic.
C5_NoSinks ==
    (pc # "init" /\ ~config.OutputConsole /\ ~config.OutputFile)
    => /\ pc = "returned"
       /\ mkdirCalls = <<>>
       /\ defaultLog = <<>>
       /\ writers = <<>>
       /\ \A c \in 1..Len(calls) :
             /\ calls[c].results = <<>>
             /\ ~calls[c].err
             /\ calls[c].outcome = "return"

C5_Witness ==
    /\ pc = "returned"
    /\ ~config.OutputConsole /\ ~config.OutputFile
    /\ writers = <<>>
    /\ Len(calls) = 3
    /\ calls[3].results = <<>>
    /\ ~calls[3].err

IsStartup(call) == call.rec.message = "logging configured"

\* C6: every NewLog call emits exactly one startup record, at level info,
\* written to the fan-out writer of the assembled sinks before NewLog
\* returns, and its seven fields carry the values of the configuration
\* given, whatever the two output flags.
C6_StartupRecord ==
    pc # "init"
    => /\ Len(calls) >= 1
       /\ IsStartup(calls[1])
       /\ \A c \in 2..Len(calls) : ~IsStartup(calls[c])
       /\ calls[1].rec.level = <<"i","n","f","o">>
       /\ Len(calls[1].results) = Len(writers)
       /\ calls[1].rec.fields =
            [fileLogging    |-> config.OutputFile,
             consoleLogging |-> config.OutputConsole,
             logPath        |-> config.LogPath,
             logFile        |-> config.LogFile,
             maxSizeMB      |-> config.MaxSize,
             maxBackup      |-> config.MaxBackups,
             maxAgeInDays   |-> config.MaxAge]

C6_Witness ==
    /\ pc = "returned"
    /\ config.OutputFile /\ ~config.OutputConsole
    /\ config.MaxSize = 1 /\ config.MaxBackups = 0
    /\ Len(calls) = 1
    /\ calls[1].rec.fields.fileLogging
    /\ ~calls[1].rec.fields.consoleLogging
    /\ calls[1].rec.fields.logPath = "/ro/logs"
    /\ calls[1].rec.fields.maxSizeMB = 1
    /\ calls[1].rec.fields.maxBackup = 0

=============================================================================
